---- MODULE Spec2Model ----
(***************************************************************************)
(* Booking-checklist PDF helpers of shelf.nu                               *)
(* (app/modules/booking/pdf-helpers.ts):                                   *)
(*   fetchAllPdfRelatedData       - load a booking, authorize, query data  *)
(*   getBookingAssetsCustomHeader - build the page-header HTML fragment    *)
(*   generatePdfContent           - drive the headless browser             *)
(* Each function is one call; JavaScript runs every stretch of code        *)
(* between two awaits atomically, so an action is one such stretch or the  *)
(* completion of one awaited external operation.                           *)
(***************************************************************************)
EXTENDS Integers, Sequences, FiniteSets, TLC

VARIABLES
    \* ---- fetchAllPdfRelatedData ----
    pc,            \* position of the call
    args,          \* [bookingId, organizationId, userId, role]
    db,            \* database rows read by the call
    booking,       \* result of getBooking: None or Some(row)
    assetQ,        \* db.asset.findMany:          "none" | "pending" | "ok" | "failed"
    orgQ,          \* db.organization.findUnique: "none" | "pending" | "ok" | "failed"
    assets,        \* rows the asset query returned
    organization,  \* None or Some(row) the organization query returned
    order,         \* order in which the two queries completed
    qrCalls,       \* arguments of each getQrCodeMaps invocation
    error,         \* None or Some(error thrown to the caller)
    result,        \* None or Some(PdfDbResult)
    \* ---- generatePdfContent ----
    gpc,           \* position of the call
    gargs,         \* [htmlContent, headerTemplate, styles]
    browser,       \* "none" | "open" | "closed"
    steps,         \* browser-automation calls made so far, in order
    pdfOptions,    \* None or Some(options passed to newPage.pdf)
    gerror,        \* None or Some(step whose failure reached the caller)
    gresult,       \* None or Some(pdf buffer)
    \* ---- getBookingAssetsCustomHeader ----
    hin,           \* the PdfDbResult handed to the builder
    hout           \* None or Some(fragment)

fetchVars == <<pc, args, db, booking, assetQ, orgQ, assets, organization,
               order, qrCalls, error, result>>
pdfVars == <<gpc, gargs, browser, steps, pdfOptions, gerror, gresult>>
headerVars == <<hin, hout>>
vars == <<fetchVars, pdfVars, headerVars>>

(***************************************************************************)
(* Nullable values: null/undefined is the empty sequence, a value x <<x>>   *)
(***************************************************************************)
None == <<>>
Some(x) == <<x>>
IsSome(o) == o # <<>>
Option(S) == {None} \cup {Some(x) : x \in S}

(***************************************************************************)
(* Bounds                                                                  *)
(***************************************************************************)
MaxTime == 3
MaxBlobLen == 3

Times == 1..MaxTime
Dates == Option(Times)

(***************************************************************************)
(* Prisma enums and ids                                                    *)
(***************************************************************************)
SELF_SERVICE == "SELF_SERVICE"
OrganizationRoles == {"ADMIN", "TEAM_MEMBER", "OWNER", SELF_SERVICE}
Roles == OrganizationRoles \cup {"undefined"}
BookingStatus == {"DRAFT", "RESERVED", "ONGOING", "OVERDUE", "COMPLETE"}
UserIds == {"u1", "u2"}
NullId == "null"

BookingRow(id, org, custodian, from, to, status, assetIds) ==
    [id |-> id, organizationId |-> org, custodianUserId |-> custodian,
     from |-> from, to |-> to, status |-> status, assets |-> assetIds]

(***************************************************************************)
(* getBooking({ id, organizationId }): the booking with that id inside     *)
(* that organization, or nothing.                                          *)
(***************************************************************************)
getBooking(d, id, organizationId) ==
    LET hit == {b \in d.bookings : b.id = id /\ b.organizationId = organizationId}
    IN  IF hit = {} THEN None ELSE Some(CHOOSE b \in hit : TRUE)

(***************************************************************************)
(* Errors thrown by fetchAllPdfRelatedData                                 *)
(***************************************************************************)
NotFoundError ==
    [type |-> "Error", message |-> "Booking not found", status |-> None,
     label |-> None, shouldBeCaptured |-> None]
ForbiddenError ==
    [type |-> "ShelfError", message |-> "You are not authorized to view this booking",
     status |-> Some(403), label |-> Some("Booking"), shouldBeCaptured |-> Some(FALSE)]
RejectedBy(op) ==
    [type |-> "Rejected", message |-> op, status |-> None,
     label |-> None, shouldBeCaptured |-> None]

(***************************************************************************)
(* Lines 38-52: the two checks made on the booking before any query.       *)
(***************************************************************************)
\* faulty variant: the role is not tested, every non-custodian is rejected
AccessCheckNoRoleTest(b, userId, role) ==
    IF ~IsSome(b) THEN "notFound"
    ELSE IF b[1].custodianUserId # userId THEN "forbidden"
    ELSE "proceed"

\* faulty variant: the custodian is not tested, nobody is rejected
AccessCheckNoCustodianTest(b, userId, role) ==
    IF ~IsSome(b) THEN "notFound"
    ELSE "proceed"

\* faulty variant: the authorization test is made before the null test
AccessCheckAuthFirst(b, userId, role) ==
    IF role = SELF_SERVICE /\ (~IsSome(b) \/ b[1].custodianUserId # userId)
    THEN "forbidden"
    ELSE IF ~IsSome(b) THEN "notFound"
    ELSE "proceed"

\* lines 38-52 as written
AccessCheck(b, userId, role) ==
    IF ~IsSome(b) THEN "notFound"
    ELSE IF role = SELF_SERVICE /\ b[1].custodianUserId # userId THEN "forbidden"
    ELSE "proceed"

(***************************************************************************)
(* Lines 63-75: the where clause on each asset's bookings.  A Date is an   *)
(* object, so `booking.from && booking.to` tests only that both are set.   *)
(* A comparison filter never matches a null column.                        *)
(***************************************************************************)
Lte(x, y) == IsSome(x) /\ IsSome(y) /\ x[1] <= y[1]
Gte(x, y) == IsSome(x) /\ IsSome(y) /\ x[1] >= y[1]
ActiveStatuses == {"RESERVED", "ONGOING", "OVERDUE"}

\* faulty variant: `||` in place of `&&` at line 65
BookingsWhereEitherSet(b, o) ==
    IF IsSome(b.from) \/ IsSome(b.to)
    THEN /\ o.status \in ActiveStatuses
         /\ \/ Lte(o.from, b.to) /\ Gte(o.to, b.from)
            \/ Gte(o.from, b.from) /\ Lte(o.to, b.to)
    ELSE TRUE

\* lines 63-75 as written
BookingsWhere(b, o) ==
    IF IsSome(b.from) /\ IsSome(b.to)
    THEN /\ o.status \in ActiveStatuses
         /\ \/ Lte(o.from, b.to) /\ Gte(o.to, b.from)
            \/ Gte(o.from, b.from) /\ Lte(o.to, b.to)
    ELSE TRUE

(***************************************************************************)
(* Lines 54-77: db.asset.findMany.  The assets whose id the booking lists, *)
(* each with those of its bookings that pass the where clause.             *)
(***************************************************************************)
SeqToSet(s) == {s[i] : i \in DOMAIN s}
LinkedBookings(d, assetId) == {o \in d.bookings : assetId \in SeqToSet(o.assets)}

AssetFindMany(d, b) ==
    LET ids == SeqToSet(b.assets)
    IN  SelectSeq([i \in DOMAIN d.assets |->
                       [id |-> d.assets[i],
                        bookings |-> {o \in LinkedBookings(d, d.assets[i]) :
                                          BookingsWhere(b, o)}]],
                  LAMBDA a : a.id \in ids)

(***************************************************************************)
(* Lines 78-81: db.organization.findUnique                                 *)
(***************************************************************************)
OrganizationFindUnique(d, organizationId) ==
    LET hit == {o \in d.organizations : o.id = organizationId}
    IN  IF hit = {} THEN None ELSE Some(CHOOSE o \in hit : TRUE)

(***************************************************************************)
(* Line 53: Promise.all over the two queries.                              *)
(***************************************************************************)
\* faulty variant: only the asset query is awaited
PromiseAllFirstOnly(aq, oq) ==
    IF aq = "failed" THEN "rejected"
    ELSE IF aq = "ok" THEN "fulfilled"
    ELSE "pending"

\* line 53 as written
PromiseAll(aq, oq) ==
    IF aq = "failed" \/ oq = "failed" THEN "rejected"
    ELSE IF aq = "ok" /\ oq = "ok" THEN "fulfilled"
    ELSE "pending"

(***************************************************************************)
(* Lines 84-89: the arguments of getQrCodeMaps                             *)
(***************************************************************************)
QrArgs(as, a) ==
    [assets |-> as, userId |-> a.userId,
     organizationId |-> a.organizationId, size |-> "small"]

(* The id -> QR code map the resolver returns *)
getQrCodeMaps(q) ==
    [id \in {q.assets[i].id : i \in DOMAIN q.assets} |-> <<"qr", id, q.size>>]

(***************************************************************************)
(* fetchAllPdfRelatedData, lines 31-96                                     *)
(***************************************************************************)
\* line 37: getBooking is called and awaited
CallGetBooking ==
    /\ pc = "start"
    /\ pc' = "awaitBooking"
    /\ UNCHANGED <<pdfVars, headerVars, args, db, booking, assetQ, orgQ, assets, organization,
                   order, qrCalls, error, result>>

\* line 37: getBooking rejects; the rejection leaves the function
GetBookingRejects ==
    /\ pc = "awaitBooking"
    /\ pc' = "thrown"
    /\ error' = Some(RejectedBy("getBooking"))
    /\ UNCHANGED <<pdfVars, headerVars, args, db, booking, assetQ, orgQ, assets, organization,
                   order, qrCalls, result>>

\* lines 37-40: getBooking resolves with nothing
ThrowNotFound ==
    /\ pc = "awaitBooking"
    /\ LET b == getBooking(db, args.bookingId, args.organizationId)
       IN  /\ AccessCheck(b, args.userId, args.role) = "notFound"
           /\ booking' = b
    /\ pc' = "thrown"
    /\ error' = Some(NotFoundError)
    /\ UNCHANGED <<pdfVars, headerVars, args, db, assetQ, orgQ, assets, organization,
                   order, qrCalls, result>>

\* lines 41-52: a self-service user who is not the custodian
ThrowForbidden ==
    /\ pc = "awaitBooking"
    /\ LET b == getBooking(db, args.bookingId, args.organizationId)
       IN  /\ AccessCheck(b, args.userId, args.role) = "forbidden"
           /\ booking' = b
    /\ pc' = "thrown"
    /\ error' = Some(ForbiddenError)
    /\ UNCHANGED <<pdfVars, headerVars, args, db, assetQ, orgQ, assets, organization,
                   order, qrCalls, result>>

\* lines 53-82: both queries are created inside the array literal, then
\* Promise.all is awaited
IssueQueries ==
    /\ pc = "awaitBooking"
    /\ LET b == getBooking(db, args.bookingId, args.organizationId)
       IN  /\ AccessCheck(b, args.userId, args.role) = "proceed"
           /\ booking' = b
    /\ pc' = "awaitAll"
    /\ assetQ' = "pending"
    /\ orgQ' = "pending"
    /\ UNCHANGED <<pdfVars, headerVars, args, db, assets, organization, order, qrCalls, error, result>>

\* What the function does once a query has settled (aq, oq are the new
\* states): nothing while Promise.all is pending or when the call is already
\* over; on rejection the call throws; on fulfilment it goes on to line 84
\* and calls getQrCodeMaps with the assets just returned.
Settle(aq, oq, as, op) ==
    LET p == IF pc = "awaitAll" THEN PromiseAll(aq, oq) ELSE "pending"
    IN  /\ pc' = CASE p = "rejected" -> "thrown"
                   [] p = "fulfilled" -> "awaitQr"
                   [] OTHER -> pc
        /\ error' = IF p = "rejected" THEN Some(RejectedBy(op)) ELSE error
        /\ qrCalls' = IF p = "fulfilled"
                      THEN Append(qrCalls, QrArgs(as, args))
                      ELSE qrCalls

AssetQueryResolves ==
    /\ assetQ = "pending"
    /\ assetQ' = "ok"
    /\ assets' = AssetFindMany(db, booking[1])
    /\ order' = Append(order, "asset")
    /\ Settle("ok", orgQ, assets', "asset.findMany")
    /\ UNCHANGED <<pdfVars, headerVars, args, db, booking, orgQ, organization, result>>

AssetQueryRejects ==
    /\ assetQ = "pending"
    /\ assetQ' = "failed"
    /\ order' = Append(order, "asset")
    /\ Settle("failed", orgQ, assets, "asset.findMany")
    /\ UNCHANGED <<pdfVars, headerVars, args, db, booking, orgQ, assets, organization, result>>

OrgQueryResolves ==
    /\ orgQ = "pending"
    /\ orgQ' = "ok"
    /\ organization' = OrganizationFindUnique(db, args.organizationId)
    /\ order' = Append(order, "organization")
    /\ Settle(assetQ, "ok", assets, "organization.findUnique")
    /\ UNCHANGED <<pdfVars, headerVars, args, db, booking, assetQ, assets, result>>

OrgQueryRejects ==
    /\ orgQ = "pending"
    /\ orgQ' = "failed"
    /\ order' = Append(order, "organization")
    /\ Settle(assetQ, "failed", assets, "organization.findUnique")
    /\ UNCHANGED <<pdfVars, headerVars, args, db, booking, assetQ, assets, organization, result>>

\* lines 84-95: the resolver returns and the composite result is built
QrResolves ==
    /\ pc = "awaitQr"
    /\ pc' = "returned"
    /\ result' = Some([booking |-> booking[1], assets |-> assets,
                       organization |-> organization,
                       assetIdToQrCodeMap |-> getQrCodeMaps(qrCalls[Len(qrCalls)])])
    /\ UNCHANGED <<pdfVars, headerVars, args, db, booking, assetQ, orgQ, assets, organization,
                   order, qrCalls, error>>

\* line 84: the resolver rejects
QrRejects ==
    /\ pc = "awaitQr"
    /\ pc' = "thrown"
    /\ error' = Some(RejectedBy("getQrCodeMaps"))
    /\ UNCHANGED <<pdfVars, headerVars, args, db, booking, assetQ, orgQ, assets, organization,
                   order, qrCalls, result>>

fetchAllPdfRelatedData ==
    \/ CallGetBooking
    \/ GetBookingRejects
    \/ ThrowNotFound
    \/ ThrowForbidden
    \/ IssueQueries
    \/ AssetQueryResolves
    \/ AssetQueryRejects
    \/ OrgQueryResolves
    \/ OrgQueryRejects
    \/ QrResolves
    \/ QrRejects


(***************************************************************************)
(* Inputs of fetchAllPdfRelatedData: the call's arguments and the rows     *)
(* the database holds.  Booking b1 of organization o1 lists assets a1 and  *)
(* a2; booking b2 also holds a1; asset a3 is in neither.                   *)
(***************************************************************************)
OrgRow ==
    [id |-> "o1", name |-> "Org", imageId |-> Some("i1"),
     image |-> Some([id |-> "i1", contentType |-> "image/png", blob |-> Some(<<77>>)])]

Database(cur, other) ==
    [bookings |-> {cur, other}, assets |-> <<"a1", "a2", "a3">>,
     organizations |-> {OrgRow}]

CurrentBookings(custodians, dates, statuses) ==
    {BookingRow("b1", "o1", c, f, t, s, <<"a1", "a2">>) :
        c \in custodians, f \in dates, t \in dates, s \in statuses}

OtherBookings(dates, statuses) ==
    {BookingRow("b2", "o1", "u2", f, t, s, <<"a1">>) :
        f \in dates, t \in dates, s \in statuses}

\* every argument combination, over a few time windows
AccessInputs ==
    {[args |-> a, db |-> Database(cur, other)] :
        a \in [bookingId : {"b1", "b9"}, organizationId : {"o1", "o2"},
               userId : UserIds, role : Roles],
        cur \in CurrentBookings(UserIds \cup {NullId}, {None, Some(1)}, {"RESERVED"}),
        other \in OtherBookings({Some(MaxTime)}, {"RESERVED"})}

\* every time window and status, over a few argument combinations
OverlapInputs ==
    {[args |-> a, db |-> Database(cur, other)] :
        a \in [bookingId : {"b1"}, organizationId : {"o1"},
               userId : {"u1"}, role : {"ADMIN", SELF_SERVICE}],
        cur \in CurrentBookings({"u1", NullId}, Dates, {"DRAFT", "RESERVED"}),
        other \in OtherBookings(Dates, BookingStatus)}

FetchInputs == AccessInputs \cup OverlapInputs

FetchIdle ==
    /\ booking = None
    /\ assetQ = "none"
    /\ orgQ = "none"
    /\ assets = <<>>
    /\ organization = None
    /\ order = <<>>
    /\ qrCalls = <<>>
    /\ error = None
    /\ result = None

FetchOff ==
    /\ pc = "off"
    /\ args = [bookingId |-> "b9", organizationId |-> "o2",
               userId |-> "u1", role |-> "undefined"]
    /\ db = [bookings |-> {}, assets |-> <<>>, organizations |-> {}]
    /\ FetchIdle

(***************************************************************************)
(* generatePdfContent, lines 178-202                                       *)
(***************************************************************************)
EmptyObject == [k \in {} |-> ""]

\* lines 191-197: { top, bottom, left, right, ...(styles || {}) }
DefaultMargin ==
    [top |-> "80px", bottom |-> "30px", left |-> "20px", right |-> "20px"]

Spread(base, over) ==
    [k \in DOMAIN base \cup DOMAIN over |->
        IF k \in DOMAIN over THEN over[k] ELSE base[k]]

\* faulty variant: styles spread before the defaults
MarginDefaultsWin(styles) ==
    Spread(IF IsSome(styles) THEN styles[1] ELSE EmptyObject, DefaultMargin)

\* lines 191-197 as written
Margin(styles) ==
    Spread(DefaultMargin, IF IsSome(styles) THEN styles[1] ELSE EmptyObject)

\* lines 187-198: the options of newPage.pdf
PdfOptions(a) ==
    [format |-> "A4", displayHeaderFooter |-> TRUE,
     headerTemplate |-> IF IsSome(a.headerTemplate) /\ a.headerTemplate[1] # ""
                        THEN a.headerTemplate[1] ELSE "",
     margin |-> Margin(a.styles)]

\* where the call goes when an awaited browser step rejects: there is no
\* try/catch/finally, so the rejection leaves the function at once
\* faulty variant: the failed step is tried again
RetryOnFailure(step) == step

OnFailure(step) == "thrown"

StepRejects(step) ==
    /\ gpc = step
    /\ steps' = Append(steps, step)
    /\ gpc' = OnFailure(step)
    /\ gerror' = IF gpc' = "thrown" THEN Some(step) ELSE gerror
    /\ UNCHANGED <<fetchVars, headerVars, gargs, browser, pdfOptions, gresult>>

\* line 183: puppeteer.launch()
LaunchResolves ==
    /\ gpc = "launch"
    /\ steps' = Append(steps, "launch")
    /\ browser' = "open"
    /\ gpc' = "newPage"
    /\ UNCHANGED <<fetchVars, headerVars, gargs, pdfOptions, gerror, gresult>>

LaunchRejects == StepRejects("launch")

\* line 184: browser.newPage()
NewPageResolves ==
    /\ gpc = "newPage"
    /\ steps' = Append(steps, "newPage")
    /\ gpc' = "setContent"
    /\ UNCHANGED <<fetchVars, headerVars, gargs, browser, pdfOptions, gerror, gresult>>

NewPageRejects == StepRejects("newPage")

\* line 185: newPage.setContent(htmlContent, { waitUntil: "networkidle0" })
SetContentResolves ==
    /\ gpc = "setContent"
    /\ steps' = Append(steps, "setContent")
    /\ gpc' = "pdf"
    /\ UNCHANGED <<fetchVars, headerVars, gargs, browser, pdfOptions, gerror, gresult>>

SetContentRejects == StepRejects("setContent")

\* lines 187-198: newPage.pdf({...})
PdfResolves ==
    /\ gpc = "pdf"
    /\ steps' = Append(steps, "pdf")
    /\ pdfOptions' = Some(PdfOptions(gargs))
    /\ gpc' = "close"
    /\ UNCHANGED <<fetchVars, headerVars, gargs, browser, gerror, gresult>>

PdfRejects ==
    /\ gpc = "pdf"
    /\ steps' = Append(steps, "pdf")
    /\ pdfOptions' = Some(PdfOptions(gargs))
    /\ gpc' = OnFailure("pdf")
    /\ gerror' = IF gpc' = "thrown" THEN Some("pdf") ELSE gerror
    /\ UNCHANGED <<fetchVars, headerVars, gargs, browser, gresult>>

\* lines 200-201: browser.close(), then the buffer is returned
CloseResolves ==
    /\ gpc = "close"
    /\ steps' = Append(steps, "close")
    /\ browser' = "closed"
    /\ gpc' = "returned"
    /\ gresult' = Some([pdfOf |-> gargs.htmlContent])
    /\ UNCHANGED <<fetchVars, headerVars, gargs, pdfOptions, gerror>>

CloseRejects == StepRejects("close")

generatePdfContent ==
    \/ LaunchResolves
    \/ LaunchRejects
    \/ NewPageResolves
    \/ NewPageRejects
    \/ SetContentResolves
    \/ SetContentRejects
    \/ PdfResolves
    \/ PdfRejects
    \/ CloseResolves
    \/ CloseRejects

StyleKeys == {"top", "bottom", "left", "right", "width"}
StyleValues == {"0px", "80px"}
StyleObjects == UNION {[ks -> StyleValues] : ks \in SUBSET StyleKeys}

PdfInputs ==
    [htmlContent : {"<p>checklist</p>"},
     headerTemplate : Option({"", "<div>header</div>"}),
     styles : Option(StyleObjects)]

PdfIdle ==
    /\ browser = "none"
    /\ steps = <<>>
    /\ pdfOptions = None
    /\ gerror = None
    /\ gresult = None

PdfOff ==
    /\ gpc = "off"
    /\ gargs = [htmlContent |-> "", headerTemplate |-> None, styles |-> None]
    /\ PdfIdle


(***************************************************************************)
(* getBookingAssetsCustomHeader, lines 98-136.  Text is a sequence of      *)
(* one-character strings; a blob is a sequence of bytes.                   *)
(***************************************************************************)
Base64Alphabet ==
    <<"A", "B", "C", "D", "E", "F", "G", "H", "I", "J", "K", "L", "M",
      "N", "O", "P", "Q", "R", "S", "T", "U", "V", "W", "X", "Y", "Z",
      "a", "b", "c", "d", "e", "f", "g", "h", "i", "j", "k", "l", "m",
      "n", "o", "p", "q", "r", "s", "t", "u", "v", "w", "x", "y", "z",
      "0", "1", "2", "3", "4", "5", "6", "7", "8", "9", "+", "/">>

Sextet(n) == Base64Alphabet[(n % 64) + 1]

\* line 104: Buffer.toString("base64"): three bytes give four characters,
\* a last group of one or two bytes is padded with "="
RECURSIVE Base64(_)
Base64(bytes) ==
    IF Len(bytes) = 0 THEN <<>>
    ELSE IF Len(bytes) = 1
    THEN <<Sextet(bytes[1] \div 4), Sextet((bytes[1] % 4) * 16), "=", "=">>
    ELSE IF Len(bytes) = 2
    THEN <<Sextet(bytes[1] \div 4),
           Sextet((bytes[1] % 4) * 16 + bytes[2] \div 16),
           Sextet((bytes[2] % 16) * 4), "=">>
    ELSE <<Sextet(bytes[1] \div 4),
           Sextet((bytes[1] % 4) * 16 + bytes[2] \div 16),
           Sextet((bytes[2] % 16) * 4 + bytes[3] \div 64),
           Sextet(bytes[3])>>
         \o Base64(SubSeq(bytes, 4, Len(bytes)))

DataUriPrefix ==
    <<"d", "a", "t", "a", ":", "i", "m", "a", "g", "e", "/", "p", "n", "g",
      ";", "b", "a", "s", "e", "6", "4", ",">>

\* line 102: organization?.image?.blob
OrgImageBlob(org) ==
    IF ~IsSome(org) THEN None
    ELSE IF ~IsSome(org[1].image) THEN None
    ELSE org[1].image[1].blob

\* lines 103-105: a Buffer is an object, hence truthy even when empty
\* faulty variant: the logo is embedded only when stored as image/png
Base64ImageByContentType(r) ==
    LET blob == OrgImageBlob(r.organization)
    IN  IF IsSome(blob) /\ r.organization[1].image[1].contentType = "image/png"
        THEN DataUriPrefix \o Base64(blob[1])
        ELSE <<>>

\* lines 103-105 as written
Base64Image(r) ==
    LET blob == OrgImageBlob(r.organization)
    IN  IF IsSome(blob) THEN DataUriPrefix \o Base64(blob[1]) ELSE <<>>

\* line 132: booking?.name || ""
BookingName(b) == IF IsSome(b.name) THEN b.name[1] ELSE ""

\* lines 106-135: the fragment; its style block and placeholders are literal
getBookingAssetsCustomHeader(r) ==
    [style |-> ".header{...} .header img{...} .header .text{...}",
     imgSrc |-> Base64Image(r),
     imgAlt |-> "logo",
     text |-> BookingName(r.booking),
     placeholders |-> <<"date", "pageNumber", "totalPages">>]

BuildHeader ==
    /\ hout = None
    /\ IsSome(hin)
    /\ hout' = Some(getBookingAssetsCustomHeader(hin[1]))
    /\ UNCHANGED <<hin, fetchVars, pdfVars>>

ByteSamples == {0, 77, 97, 110, 255}
RECURSIVE SeqsUpTo(_, _)
SeqsUpTo(S, n) ==
    IF n = 0 THEN {<<>>}
    ELSE LET shorter == SeqsUpTo(S, n - 1)
         IN  shorter \cup {Append(q, x) : q \in shorter, x \in S}
Blobs == SeqsUpTo(ByteSamples, MaxBlobLen)

Images ==
    [id : {"i1"}, contentType : {"image/png", "image/jpeg"}, blob : Option(Blobs)]
Organizations ==
    [id : {"o1"}, name : {"Org A", "Org B"}, imageId : {Some("i1")},
     image : Option(Images)]
HeaderBookings ==
    [id : {"b1"}, name : Option({"", "Trip"}), status : {"DRAFT", "RESERVED"}]
HeaderInputs ==
    [organization : Option(Organizations), booking : HeaderBookings,
     assets : {<<>>}, assetIdToQrCodeMap : {EmptyObject}]

HeaderOff ==
    /\ hin = None
    /\ hout = None

(***************************************************************************)
(* Specifications: one call of each function, on every input               *)
(***************************************************************************)
Init ==
    /\ \E i \in FetchInputs :
         /\ args = i.args
         /\ db = i.db
    /\ pc = "start"
    /\ FetchIdle
    /\ PdfOff
    /\ HeaderOff

Next == fetchAllPdfRelatedData

Spec == Init /\ [][Next]_vars

InitPdf ==
    /\ gargs \in PdfInputs
    /\ gpc = "launch"
    /\ PdfIdle
    /\ FetchOff
    /\ HeaderOff

NextPdf == generatePdfContent

SpecPdf == InitPdf /\ [][NextPdf]_vars

InitHeader ==
    /\ \E r \in HeaderInputs : hin = Some(r)
    /\ hout = None
    /\ FetchOff
    /\ PdfOff

NextHeader == BuildHeader

SpecHeader == InitHeader /\ [][NextHeader]_vars


(***************************************************************************)
(* Properties of fetchAllPdfRelatedData (checked under Spec)               *)
(***************************************************************************)
LookupResolved ==
    /\ pc \notin {"start", "awaitBooking"}
    /\ error # Some(RejectedBy("getBooking"))

NoQueryIssued == assetQ = "none" /\ orgQ = "none" /\ qrCalls = <<>>

\* C1: for every existing booking, a SELF_SERVICE caller who is not its
\* custodian (a booking without custodian included) gets the structured error
\* of status 403 marked as not to be captured, and neither the asset query, the
\* organization query nor the QR code resolver is invoked.
C1_SelfServiceNonCustodianRejected ==
    (/\ IsSome(booking)
     /\ args.role = SELF_SERVICE
     /\ booking[1].custodianUserId # args.userId)
    => /\ pc = "thrown"
       /\ IsSome(error)
       /\ error[1].type = "ShelfError"
       /\ error[1].status = Some(403)
       /\ error[1].shouldBeCaptured = Some(FALSE)
       /\ NoQueryIssued

C1_Witness ==
    /\ pc = "thrown"
    /\ args.role = SELF_SERVICE
    /\ IsSome(booking)
    /\ booking[1].custodianUserId = NullId
    /\ error = Some(ForbiddenError)

\* C2: when the lookup scoped to (bookingId, organizationId) returns nothing,
\* the call fails with "Booking not found" whatever the role and userId (the
\* authorization check is not what fails), and no query or resolver call is made.
C2_AbsentBookingNotFound ==
    (/\ LookupResolved
     /\ \A b \in db.bookings :
            b.id # args.bookingId \/ b.organizationId # args.organizationId)
    => /\ pc = "thrown"
       /\ IsSome(error)
       /\ error[1].type = "Error"
       /\ error[1].message = "Booking not found"
       /\ NoQueryIssued

C2_Witness ==
    /\ pc = "thrown"
    /\ args.role = SELF_SERVICE
    /\ args.bookingId = "b1"
    /\ args.organizationId = "o2"
    /\ error = Some(NotFoundError)

\* the overlap window of the specification: from <= otherTo AND to >= otherFrom
InWindow(cur, o) == Lte(cur.from, o.to) /\ Gte(cur.to, o.from)

BothSet(b) == IsSome(b.from) /\ IsSome(b.to)

\* C3: for a current booking with from and to set, every other booking the
\* asset query returns for an asset lies in the window
\* current.from <= other.to AND current.to >= other.from and has status
\* RESERVED, ONGOING or OVERDUE (so a booking outside the window or of another
\* status is excluded), also when the other booking's from is later than its to.
C3_ReturnedBookingsInWindow ==
    (assetQ = "ok" /\ BothSet(booking[1]))
    => \A i \in DOMAIN assets :
         \A o \in LinkedBookings(db, assets[i].id) :
            (o.id # booking[1].id /\ o \in assets[i].bookings)
            => (InWindow(booking[1], o) /\ o.status \in ActiveStatuses)

\* C4: the filter is applied if and only if the current booking has both from
\* and to: with either unset every booking of each asset is returned whatever
\* its window and status; with both set only active-status bookings are.
C4_FilterOnlyWhenBothSet ==
    assetQ = "ok"
    => \A i \in DOMAIN assets :
         LET linked == {o \in db.bookings : \E j \in DOMAIN o.assets :
                                               o.assets[j] = assets[i].id}
         IN  IF IsSome(booking[1].from) /\ IsSome(booking[1].to)
             THEN /\ assets[i].bookings \subseteq linked
                  /\ \A o \in linked :
                        o.status \notin {"RESERVED", "ONGOING", "OVERDUE"}
                        => o \notin assets[i].bookings
             ELSE assets[i].bookings = linked

C4_Witness ==
    /\ assetQ = "ok"
    /\ IsSome(booking[1].from)
    /\ ~IsSome(booking[1].to)
    /\ \E i \in DOMAIN assets : \E o \in assets[i].bookings :
          /\ o.id = "b2"
          /\ o.status = "COMPLETE"
          /\ o.from = Some(3)
          /\ o.to = Some(1)

\* C9: once the checks pass both queries are issued before either completes
\* (they may complete in either order); the QR code resolver is invoked once,
\* only after both have succeeded, with exactly the asset list the asset query
\* returned; if either query fails the resolver is never invoked and the call
\* fails.
C9_QueriesJoinedBeforeResolver ==
    /\ pc \in {"awaitAll", "awaitQr", "returned"}
       => (assetQ # "none" /\ orgQ # "none")
    /\ (assetQ \in {"ok", "failed"} \/ orgQ \in {"ok", "failed"})
       => (assetQ # "none" /\ orgQ # "none")
    /\ qrCalls # <<>>
       => /\ assetQ = "ok"
          /\ orgQ = "ok"
          /\ Len(qrCalls) = 1
          /\ qrCalls[1].assets = assets
          /\ Len(assets) = Len(booking[1].assets)
    /\ (assetQ = "ok" /\ orgQ = "ok") => qrCalls # <<>>
    /\ (assetQ = "failed" \/ orgQ = "failed")
       => (qrCalls = <<>> /\ pc = "thrown" /\ result = None)

C9_Witness ==
    /\ pc = "returned"
    /\ order = <<"organization", "asset">>
    /\ Len(qrCalls) = 1
    /\ Len(qrCalls[1].assets) = 2
    /\ IsSome(result)

\* C10: only SELF_SERVICE is ever rejected: for an existing booking a caller
\* of any other role, the undefined role included, never gets the 403 error and
\* reaches the asset and organization queries even when not the custodian; so
\* does a SELF_SERVICE caller who is the custodian.
C10_OnlySelfServiceRejected ==
    (/\ LookupResolved
     /\ \E b \in db.bookings :
           /\ b.id = args.bookingId
           /\ b.organizationId = args.organizationId
           /\ (args.role # SELF_SERVICE \/ b.custodianUserId = args.userId))
    => /\ assetQ # "none"
       /\ orgQ # "none"
       /\ error # Some(ForbiddenError)
       /\ IsSome(error) => error[1].status # Some(403)

C10_Witness ==
    /\ args.role = "undefined"
    /\ IsSome(booking)
    /\ booking[1].custodianUserId # args.userId
    /\ assetQ = "ok"
    /\ orgQ = "ok"
    /\ pc = "returned"

(***************************************************************************)
(* Properties of generatePdfContent (checked under SpecPdf)                *)
(***************************************************************************)
StepOrder == <<"launch", "newPage", "setContent", "pdf", "close">>

IsPrefix(s, t) == Len(s) <= Len(t) /\ s = SubSeq(t, 1, Len(s))

\* C5: whenever the launch succeeded, the browser has been closed by the time
\* the call returns or fails.
C5_BrowserClosedOnEveryExit ==
    (gpc \in {"returned", "thrown"} /\ browser # "none") => browser = "closed"

\* C6: a failing step ends the call with that failure: the failing step is the
\* last one made, the steps made are an initial part of launch, newPage,
\* setContent, pdf, close with none repeated, and no buffer is returned.
C6_FailurePropagatesNoRetry ==
    /\ IsPrefix(steps, StepOrder)
    /\ IsSome(gerror)
       => /\ gpc = "thrown"
          /\ gresult = None
          /\ steps # <<>>
          /\ steps[Len(steps)] = gerror[1]
    /\ IsSome(gresult) => (gerror = None /\ steps = StepOrder)
    /\ gpc \in {"launch", "newPage", "setContent", "pdf", "close"}
       => gerror = None

C6_Witness ==
    /\ gpc = "thrown"
    /\ gerror = Some("setContent")
    /\ steps = <<"launch", "newPage", "setContent">>
    /\ gresult = None

ClaimedDefaultMargin ==
    [top |-> "80px", bottom |-> "30px", left |-> "20px", right |-> "20px"]

\* C7: the margin passed to the PDF export is the defaults top 80px, bottom
\* 30px, left 20px, right 20px overridden by styles: the caller's value for
\* every key of styles, the default for every default key styles lacks, and
\* exactly the defaults when styles is omitted.
C7_MarginDefaultsOverridden ==
    IsSome(pdfOptions)
    => LET m == pdfOptions[1].margin
           given == IF IsSome(gargs.styles) THEN DOMAIN gargs.styles[1] ELSE {}
       IN  /\ DOMAIN m = DOMAIN ClaimedDefaultMargin \cup given
           /\ \A k \in given : m[k] = gargs.styles[1][k]
           /\ \A k \in DOMAIN ClaimedDefaultMargin \ given :
                 m[k] = ClaimedDefaultMargin[k]
           /\ gargs.styles = None => m = ClaimedDefaultMargin

C7_Witness ==
    /\ IsSome(pdfOptions)
    /\ IsSome(gargs.styles)
    /\ DOMAIN gargs.styles[1] = {"top", "width"}
    /\ gargs.styles[1]["top"] = "0px"
    /\ pdfOptions[1].margin["top"] = "0px"
    /\ pdfOptions[1].margin["left"] = "20px"
    /\ pdfOptions[1].margin["width"] = "80px"

(***************************************************************************)
(* Properties of getBookingAssetsCustomHeader (checked under SpecHeader)   *)
(***************************************************************************)
SextetValue(c) == CHOOSE n \in 0..63 : Base64Alphabet[n + 1] = c

\* the bytes a padded base64 text stands for
RECURSIVE Base64Bytes(_)
Base64Bytes(chars) ==
    IF Len(chars) < 4 THEN <<>>
    ELSE LET a == SextetValue(chars[1])
             b == SextetValue(chars[2])
             rest == Base64Bytes(SubSeq(chars, 5, Len(chars)))
         IN  IF chars[3] = "=" THEN <<a * 4 + b \div 16>>
             ELSE LET c == SextetValue(chars[3])
                  IN  IF chars[4] = "="
                      THEN <<a * 4 + b \div 16, (b % 16) * 16 + c \div 4>>
                      ELSE <<a * 4 + b \div 16, (b % 16) * 16 + c \div 4,
                             (c % 4) * 64 + SextetValue(chars[4])>> \o rest

\* inputs that differ from r in everything but the logo blob and booking name
SameBlobAndName(r) ==
    {[organization |-> org, booking |-> bk, assets |-> r.assets,
      assetIdToQrCodeMap |-> r.assetIdToQrCodeMap] :
        org \in {o \in Option(Organizations) :
                    OrgImageBlob(o) = OrgImageBlob(r.organization)},
        bk \in {b \in HeaderBookings : b.name = r.booking.name}}

\* C8: the image source is empty when the organization is null, has no image
\* or the image has no blob, and otherwise is "data:image/png;base64," followed
\* by the base64 text of exactly the stored bytes; the fragment is the same for
\* every input with the same logo blob and booking name.
C8_HeaderImageSource ==
    IsSome(hout)
    => LET r == hin[1]
           src == hout[1].imgSrc
           org == r.organization
           noBlob == \/ org = None
                     \/ org[1].image = None
                     \/ org[1].image[1].blob = None
           n == Len(DataUriPrefix)
       IN  /\ noBlob => src = <<>>
           /\ ~noBlob =>
                LET bytes == org[1].image[1].blob[1]
                IN  /\ Len(src) = n + 4 * ((Len(bytes) + 2) \div 3)
                    /\ SubSeq(src, 1, n) = DataUriPrefix
                    /\ Base64Bytes(SubSeq(src, n + 1, Len(src))) = bytes
           /\ \A r2 \in SameBlobAndName(r) :
                 getBookingAssetsCustomHeader(r2) = hout[1]

C8_Witness ==
    /\ IsSome(hout)
    /\ IsSome(hin[1].organization)
    /\ IsSome(hin[1].organization[1].image)
    /\ hin[1].organization[1].image[1].contentType = "image/jpeg"
    /\ hin[1].organization[1].image[1].blob = Some(<<77, 97, 110>>)
    /\ hout[1].imgSrc = DataUriPrefix \o <<"T", "W", "F", "u">>
    /\ hout[1].text = "Trip"

====
